---- MODULE Spec2Model ----
(***************************************************************************)
(* r-auth: a TOTP authenticator whose account secrets are kept in an       *)
(* age-encrypted file, the age identity being held in the OS keyring.      *)
(*                                                                         *)
(* The model follows src/src/main.rs (run), src/src/authenticator.rs       *)
(* (TOTPAuthenticator), src/src/crypto.rs (Crypto) and src/src/totp.rs     *)
(* (TOTP).  The keyring, the backing file, the clock and the QR renderer   *)
(* are the environment: the keyring is taken to be a reliable store (a     *)
(* read fails exactly when the entry is absent), the config directory is   *)
(* taken to exist, and every operation on the backing file, the clock and  *)
(* the QR renderer may fail, which the actions draw as an input.           *)
(***************************************************************************)
EXTENDS Integers, Sequences, FiniteSets, TLC

\* ------------------------------------------------------------------ bounds
\* How many identities Identity::generate() hands out in one behaviour.
MaxKeys == 2
\* How many processes (CLI invocations) may be alive at once under SpecRace.
MaxProcs == 2

Procs == 1..MaxProcs

\* ------------------------------------------------------------ input domains
\* Account names are character sequences, so that trim() is computed.
NameInputs == { <<>>, <<" ">>, <<"a">>, <<"b">> }

\* Secret texts given on the command line, and the one generate_secret makes.
NoneSecret == "None"
GivenSecrets == { "JBSWY3DPEHPK3PXP", "not-base32!!" }
GeneratedSecrets == { "GEZDGNBVGY3TQOJQGEZDGNBVGY3TQOJQ" }

\* ------------------------------------------------------------------- names
IsWhitespace(c) == c = " "

RECURSIVE TrimStart(_)
TrimStart(s) ==
  IF s # <<>> /\ IsWhitespace(Head(s)) THEN TrimStart(Tail(s)) ELSE s

RECURSIVE TrimEnd(_)
TrimEnd(s) ==
  IF s # <<>> /\ IsWhitespace(s[Len(s)])
  THEN TrimEnd(SubSeq(s, 1, Len(s) - 1))
  ELSE s

\* str::trim
Trim(s) == TrimEnd(TrimStart(s))

\* ------------------------------------------------------------------ base32
\* base32::decode(RFC4648 {padding: true}, text): Some(bytes) for a text over
\* the alphabet, None otherwise.  Only the texts of the input domains occur.
Base32Decode(text) ==
  CASE text = "JBSWY3DPEHPK3PXP" ->
         [ok |-> TRUE, bytes |-> <<72, 101, 108, 108, 111, 33, 222, 173, 190, 239>>]
    [] text = "GEZDGNBVGY3TQOJQGEZDGNBVGY3TQOJQ" ->
         [ok |-> TRUE,
          bytes |-> <<49, 50, 51, 52, 53, 54, 55, 56, 57, 48,
                      49, 50, 51, 52, 53, 54, 55, 56, 57, 48>>]
    [] OTHER -> [ok |-> FALSE, bytes |-> <<>>]

\* TOTP::new followed by TOTP::now, as add_account and get_code use them:
\* the text must decode and the clock must be readable.
TotpProbe(text, clockOk) ==
  IF ~Base32Decode(text).ok THEN [ok |-> FALSE, err |-> "Base32DecodeError"]
  ELSE IF ~clockOk THEN [ok |-> FALSE, err |-> "InvalidSecret(clock)"]
  ELSE [ok |-> TRUE, err |-> ""]

\* -------------------------------------------------------------------- totp
\* TOTP::new sets digits: 6 and interval: 30.
Digits == 6
Interval == 30

RECURSIVE BitAnd(_, _)
BitAnd(a, b) ==
  IF a = 0 \/ b = 0 THEN 0
  ELSE (a % 2) * (b % 2) + 2 * BitAnd(a \div 2, b \div 2)

RECURSIVE BitOr(_, _)
BitOr(a, b) ==
  IF a = 0 THEN b
  ELSE IF b = 0 THEN a
  ELSE (IF a % 2 = 1 \/ b % 2 = 1 THEN 1 ELSE 0) + 2 * BitOr(a \div 2, b \div 2)

\* A u32 is kept as its four bytes, most significant first.
AsU32(byte) == <<0, 0, 0, byte>>

\* u32 << n for n a multiple of 8 below 32: the bits shifted out are dropped.
Shl32(w, n) ==
  LET by == n \div 8
  IN [i \in 1..4 |-> IF i + by <= 4 THEN w[i + by] ELSE 0]

Or32(v, w) == [i \in 1..4 |-> BitOr(v[i], w[i])]

RECURSIVE Pow(_, _)
Pow(b, e) == IF e = 0 THEN 1 ELSE b * Pow(b, e - 1)

\* u32 % m, for m small enough that m * 256 is representable.
Rem32(w, m) == ((((((w[1] % m) * 256 + w[2]) % m) * 256 + w[3]) % m) * 256 + w[4]) % m

\* u64::to_be_bytes, for the n low bytes.
RECURSIVE BeBytes(_, _)
BeBytes(c, n) == IF n = 0 THEN <<>> ELSE Append(BeBytes(c \div 256, n - 1), c % 256)

\* code_bytes[i], i counted from 0; an index past the digest panics.
Byte(d, i) == IF i \in 0..(Len(d) - 1) THEN d[i + 1] ELSE -1

DigitChar(n) ==
  CASE n = 0 -> "0" [] n = 1 -> "1" [] n = 2 -> "2" [] n = 3 -> "3" [] n = 4 -> "4"
    [] n = 5 -> "5" [] n = 6 -> "6" [] n = 7 -> "7" [] n = 8 -> "8" [] n = 9 -> "9"

RECURSIVE Decimal(_)
Decimal(n) ==
  IF n < 10 THEN <<DigitChar(n)>> ELSE Append(Decimal(n \div 10), DigitChar(n % 10))

\* format!("{:0width$}", n, width = w)
FormatPadded(n, w) ==
  LET PadTo(s) == [i \in 1..w |-> IF i <= w - Len(s) THEN "0" ELSE s[i - (w - Len(s))]]
  IN IF Len(Decimal(n)) >= w THEN Decimal(n) ELSE PadTo(Decimal(n))

\* generate, line 47: the HOTP counter of a timestamp.
Counter(timestamp) == timestamp \div Interval

\* generate, line 57: the low nibble of the last byte of the digest.
Offset(d) == BitAnd(Byte(d, 19), 15)

\* A variant of DynamicTruncate that keeps the top bit of the first byte.
DynamicTruncateNoMask(d) ==
  LET offset == Offset(d)
  IN Or32(Or32(Or32(Shl32(AsU32(Byte(d, offset)), 24),
                    Shl32(AsU32(Byte(d, offset + 1)), 16)),
               Shl32(AsU32(Byte(d, offset + 2)), 8)),
          AsU32(Byte(d, offset + 3)))

\* generate, lines 58-61: the four bytes at the offset, top bit masked.
DynamicTruncate(d) ==
  LET offset == Offset(d)
  IN Or32(Or32(Or32(Shl32(AsU32(BitAnd(Byte(d, offset), 127)), 24),
                    Shl32(AsU32(Byte(d, offset + 1)), 16)),
               Shl32(AsU32(Byte(d, offset + 2)), 8)),
          AsU32(Byte(d, offset + 3)))

\* TOTP::generate, the HMAC-SHA1 digest of the counter bytes being d.
Generate(timestamp, d) ==
  LET counter == Counter(timestamp)
      code == DynamicTruncate(d)
  IN [counter |-> counter, msg |-> BeBytes(counter, 8), offset |-> Offset(d),
      value |-> code, code |-> FormatPadded(Rem32(code, Pow(10, Digits)), Digits)]

\* ----------------------------------------------------------------- mapping
\* HashMap<String, String>: a function from a finite set of names to texts.
EmptyMap == [n \in {} |-> ""]

Insert(m, name, secret) ==
  [n \in DOMAIN m \cup {name} |-> IF n = name THEN secret ELSE m[n]]

Remove(m, name) == [n \in DOMAIN m \ {name} |-> m[n]]

\* The orders in which a HashMap of these keys may be iterated.
Orders(S) ==
  { o \in [1..Cardinality(S) -> S] : \A i, j \in DOMAIN o : i # j => o[i] # o[j] }

\* serde_json::to_string_pretty(&accounts): the entries in iteration order.
ToJson(m, ord) == [i \in DOMAIN ord |-> <<ord[i], m[ord[i]]>>]

\* serde_json::from_str::<HashMap<_, _>>: entries inserted in document order.
RECURSIVE FromJson(_)
FromJson(text) ==
  IF text = <<>> THEN EmptyMap
  ELSE LET n == Len(text)
       IN Insert(FromJson(SubSeq(text, 1, n - 1)), text[n][1], text[n][2])

\* ------------------------------------------------------------ file contents
\* What the backing file holds.  "age" is a whole age stream for recipient
\* rcpt, made with the ephemeral randomness eph and carrying body;
\* "cutHeader" and "cutPayload" are what a failed write_all leaves behind
\* after the truncating open.
Absent == [kind |-> "absent", rcpt |-> 0, eph |-> 0, body |-> <<>>]
Empty == [kind |-> "empty", rcpt |-> 0, eph |-> 0, body |-> <<>>]
CutHeader == [kind |-> "cutHeader", rcpt |-> 0, eph |-> 0, body |-> <<>>]
CutPayload(k) == [kind |-> "cutPayload", rcpt |-> k, eph |-> 0, body |-> <<>>]
Age(k, eph, text) == [kind |-> "age", rcpt |-> k, eph |-> eph, body |-> text]

\* The ephemeral randomness of one encryption.
EphInputs == {0, 1}

\* -------------------------------------------------------------------- crypto
\* Crypto::load_key: the keyring entry, 0 when there is none.
LoadKey(k) ==
  IF k = 0 THEN [ok |-> FALSE, err |-> "Keyring"] ELSE [ok |-> TRUE, err |-> ""]

\* Crypto::key_exists
KeyExists(k) == k # 0

\* Crypto::encrypt(data) with the keyring holding k.
Encrypt(text, k, eph) ==
  IF ~LoadKey(k).ok THEN [ok |-> FALSE, err |-> LoadKey(k).err, blob |-> Absent]
  ELSE [ok |-> TRUE, err |-> "", blob |-> Age(k, eph, text)]

\* A variant of Decrypt that never matches the stream's recipient against
\* the identity.
DecryptAnyKey(blob, k) ==
  IF ~LoadKey(k).ok THEN [ok |-> FALSE, err |-> LoadKey(k).err, plain |-> <<>>]
  ELSE IF blob.kind \notin {"age", "cutPayload"}
       THEN [ok |-> FALSE, err |-> "Age", plain |-> <<>>]
  ELSE IF blob.kind = "cutPayload" THEN [ok |-> FALSE, err |-> "Io", plain |-> <<>>]
  ELSE [ok |-> TRUE, err |-> "", plain |-> blob.body]

\* Crypto::decrypt(encrypted_data) with the keyring holding k.
Decrypt(blob, k) ==
  IF ~LoadKey(k).ok THEN [ok |-> FALSE, err |-> LoadKey(k).err, plain |-> <<>>]
  ELSE IF blob.kind \notin {"age", "cutPayload"}
       THEN [ok |-> FALSE, err |-> "Age", plain |-> <<>>]
  ELSE IF blob.rcpt # k THEN [ok |-> FALSE, err |-> "Decryption", plain |-> <<>>]
  ELSE IF blob.kind = "cutPayload" THEN [ok |-> FALSE, err |-> "Io", plain |-> <<>>]
  ELSE [ok |-> TRUE, err |-> "", plain |-> blob.body]

\* ------------------------------------------------------------ authenticator
LoadFaults == {"none", "open", "read"}
SaveFaults == {"none", "open", "write0", "writeHeader", "writePayload"}

\* A variant of LoadAccounts without the encrypted.is_empty() early return.
LoadAccountsNoEmptyCheck(f, k, fault) ==
  IF fault = "open"
  THEN [ok |-> FALSE, err |-> "StorageFile", accounts |-> EmptyMap, decrypted |-> FALSE]
  ELSE IF f.kind = "absent"
  THEN [ok |-> TRUE, err |-> "", accounts |-> EmptyMap, decrypted |-> FALSE]
  ELSE IF fault = "read"
  THEN [ok |-> FALSE, err |-> "StorageFile", accounts |-> EmptyMap, decrypted |-> FALSE]
  ELSE LET d == Decrypt(f, k)
       IN IF ~d.ok
          THEN [ok |-> FALSE, err |-> d.err, accounts |-> EmptyMap, decrypted |-> TRUE]
          ELSE [ok |-> TRUE, err |-> "", accounts |-> FromJson(d.plain),
                decrypted |-> TRUE]

\* TOTPAuthenticator::load_accounts
LoadAccounts(f, k, fault) ==
  IF fault = "open"
  THEN [ok |-> FALSE, err |-> "StorageFile", accounts |-> EmptyMap, decrypted |-> FALSE]
  ELSE IF f.kind = "absent"
  THEN [ok |-> TRUE, err |-> "", accounts |-> EmptyMap, decrypted |-> FALSE]
  ELSE IF fault = "read"
  THEN [ok |-> FALSE, err |-> "StorageFile", accounts |-> EmptyMap, decrypted |-> FALSE]
  ELSE IF f.kind = "empty"
  THEN [ok |-> TRUE, err |-> "", accounts |-> EmptyMap, decrypted |-> FALSE]
  ELSE LET d == Decrypt(f, k)
       IN IF ~d.ok
          THEN [ok |-> FALSE, err |-> d.err, accounts |-> EmptyMap, decrypted |-> TRUE]
          ELSE [ok |-> TRUE, err |-> "", accounts |-> FromJson(d.plain),
                decrypted |-> TRUE]

\* A variant of New without the key_exists check.
NewNoKeyCheck(f, k, fault) ==
  LET l == LoadAccounts(f, k, fault)
  IN [ok |-> l.ok, err |-> l.err, accounts |-> l.accounts,
      opened |-> TRUE, decrypted |-> l.decrypted]

\* TOTPAuthenticator::new
New(f, k, fault) ==
  IF ~KeyExists(k)
  THEN [ok |-> FALSE, err |-> "KeyNotFound", accounts |-> EmptyMap,
        opened |-> FALSE, decrypted |-> FALSE]
  ELSE LET l == LoadAccounts(f, k, fault)
       IN [ok |-> l.ok, err |-> l.err, accounts |-> l.accounts,
           opened |-> TRUE, decrypted |-> l.decrypted]

\* TOTPAuthenticator::save_accounts
SaveAccounts(m, ord, f, k, eph, fault) ==
  LET enc == Encrypt(ToJson(m, ord), k, eph)
  IN IF ~enc.ok THEN [ok |-> FALSE, err |-> enc.err, file |-> f]
     ELSE IF fault = "open" THEN [ok |-> FALSE, err |-> "StorageFile", file |-> f]
     ELSE IF fault = "write0" THEN [ok |-> FALSE, err |-> "StorageFile", file |-> Empty]
     ELSE IF fault = "writeHeader"
     THEN [ok |-> FALSE, err |-> "StorageFile", file |-> CutHeader]
     ELSE IF fault = "writePayload"
     THEN [ok |-> FALSE, err |-> "StorageFile", file |-> CutPayload(k)]
     ELSE [ok |-> TRUE, err |-> "", file |-> enc.blob]

\* A variant of AddAccountOp that inserts and saves before it validates.
AddAccountInsertFirst(m, name, secretOpt, gen, clockOk, ord, f, k, eph, fault, qrOk) ==
  LET secret == IF secretOpt = NoneSecret THEN gen ELSE secretOpt
      probe == TotpProbe(secret, clockOk)
      m1 == Insert(m, name, secret)
      s == SaveAccounts(m1, ord, f, k, eph, fault)
  IN IF ~s.ok
     THEN [ret |-> "err", err |-> s.err, val |-> "", accounts |-> m1, file |-> s.file,
           saved |-> "err"]
     ELSE IF Trim(name) = <<>>
     THEN [ret |-> "err", err |-> "InvalidSecret(Account name cannot be empty)",
           val |-> "", accounts |-> m1, file |-> s.file, saved |-> "ok"]
     ELSE IF ~probe.ok
     THEN [ret |-> "err", err |-> probe.err, val |-> "", accounts |-> m1,
           file |-> s.file, saved |-> "ok"]
     ELSE IF ~qrOk
     THEN [ret |-> "err", err |-> "QrCode", val |-> "", accounts |-> m1,
           file |-> s.file, saved |-> "ok"]
     ELSE [ret |-> "ok", err |-> "", val |-> secret, accounts |-> m1, file |-> s.file,
           saved |-> "ok"]

\* A variant of AddAccountOp that reads the backing file again before it
\* inserts, so that entries saved by another process are kept.
AddAccountReloading(m, name, secretOpt, gen, clockOk, ord, f, k, eph, fault, qrOk) ==
  LET secret == IF secretOpt = NoneSecret THEN gen ELSE secretOpt
      probe == TotpProbe(secret, clockOk)
      l == New(f, k, "none")
      m1 == Insert(IF l.ok THEN l.accounts ELSE m, name, secret)
      s == SaveAccounts(m1, CHOOSE o \in Orders(DOMAIN m1) : TRUE, f, k, eph, fault)
  IN IF Trim(name) = <<>>
     THEN [ret |-> "err", err |-> "InvalidSecret(Account name cannot be empty)",
           val |-> "", accounts |-> m, file |-> f, saved |-> "none"]
     ELSE IF ~probe.ok
     THEN [ret |-> "err", err |-> probe.err, val |-> "", accounts |-> m, file |-> f,
           saved |-> "none"]
     ELSE IF ~s.ok
     THEN [ret |-> "err", err |-> s.err, val |-> "", accounts |-> m1, file |-> s.file,
           saved |-> "err"]
     ELSE IF ~qrOk
     THEN [ret |-> "err", err |-> "QrCode", val |-> "", accounts |-> m1,
           file |-> s.file, saved |-> "ok"]
     ELSE [ret |-> "ok", err |-> "", val |-> secret, accounts |-> m1, file |-> s.file,
           saved |-> "ok"]

\* TOTPAuthenticator::add_account
AddAccountOp(m, name, secretOpt, gen, clockOk, ord, f, k, eph, fault, qrOk) ==
  LET secret == IF secretOpt = NoneSecret THEN gen ELSE secretOpt
      probe == TotpProbe(secret, clockOk)
      m1 == Insert(m, name, secret)
      s == SaveAccounts(m1, ord, f, k, eph, fault)
  IN IF Trim(name) = <<>>
     THEN [ret |-> "err", err |-> "InvalidSecret(Account name cannot be empty)",
           val |-> "", accounts |-> m, file |-> f, saved |-> "none"]
     ELSE IF ~probe.ok
     THEN [ret |-> "err", err |-> probe.err, val |-> "", accounts |-> m, file |-> f,
           saved |-> "none"]
     ELSE IF ~s.ok
     THEN [ret |-> "err", err |-> s.err, val |-> "", accounts |-> m1, file |-> s.file,
           saved |-> "err"]
     ELSE IF ~qrOk
     THEN [ret |-> "err", err |-> "QrCode", val |-> "", accounts |-> m1,
           file |-> s.file, saved |-> "ok"]
     ELSE [ret |-> "ok", err |-> "", val |-> secret, accounts |-> m1, file |-> s.file,
           saved |-> "ok"]

\* A variant of RemoveAccountOp that saves whether or not anything was removed.
RemoveAccountAlwaysSave(m, name, ord, f, k, eph, fault) ==
  LET m1 == Remove(m, name)
      s == SaveAccounts(m1, ord, f, k, eph, fault)
  IN [ret |-> "ok", err |-> "", val |-> IF name \in DOMAIN m THEN "true" ELSE "false",
      accounts |-> m1, file |-> s.file, saved |-> IF s.ok THEN "ok" ELSE "err"]

\* TOTPAuthenticator::remove_account
RemoveAccountOp(m, name, ord, f, k, eph, fault) ==
  IF name \in DOMAIN m
  THEN LET m1 == Remove(m, name)
           s == SaveAccounts(m1, ord, f, k, eph, fault)
       IN [ret |-> "ok", err |-> "", val |-> "true", accounts |-> m1, file |-> s.file,
           saved |-> IF s.ok THEN "ok" ELSE "err"]
  ELSE [ret |-> "ok", err |-> "", val |-> "false", accounts |-> m, file |-> f,
        saved |-> "none"]

\* TOTPAuthenticator::get_code
GetCodeOp(m, name, clockOk) ==
  IF name \in DOMAIN m /\ TotpProbe(m[name], clockOk).ok THEN "some" ELSE "none"

\* TOTPAuthenticator::list_accounts
ListAccountsOp(m) == DOMAIN m

\* TOTPAuthenticator::reset
ResetOp(f, delOk) ==
  IF f.kind # "absent"
  THEN IF delOk THEN [ok |-> TRUE, err |-> "", file |-> Absent]
       ELSE [ok |-> FALSE, err |-> "StorageFile", file |-> f]
  ELSE [ok |-> TRUE, err |-> "", file |-> f]

\* A variant of CryptoInit without the check for an existing key.
CryptoInitOverwrite(k, fresh) == [ok |-> TRUE, err |-> "", key |-> fresh]

\* Crypto::init
CryptoInit(k, fresh) ==
  IF KeyExists(k) THEN [ok |-> FALSE, err |-> "KeyExists", key |-> k]
  ELSE [ok |-> TRUE, err |-> "", key |-> fresh]

\* A variant of CryptoReset that replaces the entry instead of deleting it.
CryptoResetRotate(k) ==
  IF k = 0 THEN [ok |-> FALSE, err |-> "Keyring", key |-> k]
  ELSE [ok |-> TRUE, err |-> "", key |-> k + 1]

\* Crypto::reset
CryptoReset(k) ==
  IF k = 0 THEN [ok |-> FALSE, err |-> "Keyring", key |-> k]
  ELSE [ok |-> TRUE, err |-> "", key |-> 0]

\* main.rs run, Commands::Reset, after the authenticator of line 125 was built:
\* confirm_reset, a second TOTPAuthenticator::new whose failure is ignored,
\* its reset(), then Crypto::key_exists and Crypto::reset.
RunReset(f, k, confirm, fault, delOk) ==
  LET a == New(f, k, fault)
      r == IF a.ok THEN ResetOp(f, delOk) ELSE [ok |-> TRUE, err |-> "", file |-> f]
      c == IF KeyExists(k) THEN CryptoReset(k) ELSE [ok |-> TRUE, err |-> "", key |-> k]
  IN IF ~confirm THEN [ret |-> "ok", err |-> "", val |-> "cancelled", file |-> f, key |-> k]
     ELSE IF ~r.ok THEN [ret |-> "err", err |-> r.err, val |-> "", file |-> f, key |-> k]
     ELSE IF ~c.ok
     THEN [ret |-> "err", err |-> c.err, val |-> "", file |-> r.file, key |-> k]
     ELSE [ret |-> "ok", err |-> "", val |-> "reset", file |-> r.file, key |-> c.key]

\* -------------------------------------------------------------------- state
VARIABLES
  key,        \* the keyring entry (SERVICE_NAME, USERNAME): an identity, 0 if absent
  generated,  \* how many identities Identity::generate() has produced
  file,       \* the contents of the backing file accounts.json
  pc,         \* per process: "idle" (not running) or "ready" (authenticator built)
  cmd,        \* per process: the command line it was started with
  accounts,   \* per process: TOTPAuthenticator.accounts
  last,       \* the call that ended last: its inputs, the state before, its result
  totp        \* the last TOTP computation: its inputs, its intermediate values, its code

vars == <<key, generated, file, pc, cmd, accounts, last, totp>>

NoCmd == [op |-> "none", name |-> <<>>, secret |-> NoneSecret]

\* The command lines other than init (cli.command).
Commands ==
  { [op |-> "add", name |-> n, secret |-> s] :
      n \in NameInputs, s \in GivenSecrets \cup {NoneSecret} }
  \cup { [op |-> o, name |-> n, secret |-> NoneSecret] :
           o \in {"remove", "code"}, n \in NameInputs }
  \cup { [op |-> o, name |-> <<>>, secret |-> NoneSecret] : o \in {"list", "show", "reset"} }

NoCall ==
  [fn |-> "none", proc |-> 0, name |-> <<>>, secret |-> NoneSecret, fault |-> "none",
   ret |-> "ok", err |-> "", val |-> "", listed |-> {},
   key0 |-> 0, file0 |-> Absent, mem0 |-> EmptyMap, mem1 |-> EmptyMap,
   opened |-> FALSE, decrypted |-> FALSE, saved |-> "none"]

\* The record of a call by process p, from the state it started in.
Call(p, fn) ==
  [NoCall EXCEPT !.fn = fn, !.proc = p, !.name = cmd[p].name, !.secret = cmd[p].secret,
                 !.key0 = key, !.file0 = file, !.mem0 = accounts[p],
                 !.mem1 = accounts[p]]

\* Timestamps the clock may show, the RFC 6238 test times among them.
TimeInputs == { 0, 29, 30, 59, 60, 1111111109, 1234567890, 2000000000 }

\* HMAC-SHA1 digests: 20 bytes, any of which the MAC may produce.
FillBytes == { 0, 127, 128, 255 }
StepBytes == { 0, 17 }
LastBytes == { 0, 5, 10, 15, 16, 31, 240, 255 }
MkDigest(fill, stepb, lastb) ==
  [i \in 1..20 |-> IF i = 20 THEN lastb ELSE (fill + stepb * i) % 256]
DigestInputs ==
  { MkDigest(f, s, l) : f \in FillBytes, s \in StepBytes, l \in LastBytes }

NoTotp ==
  [fn |-> "none", secret |-> NoneSecret, clockOk |-> TRUE, time |-> 0,
   digest |-> <<>>, ret |-> "ok",
   err |-> "", counter |-> 0, msg |-> <<>>, offset |-> 0, value |-> <<>>,
   code |-> <<>>]

\* The inputs of one TOTP computation: a secret text, whether the clock can be
\* read, its reading, and the digest the MAC returns.
TotpInputs ==
  { [NoTotp EXCEPT !.fn = "input", !.secret = text, !.clockOk = c, !.time = t,
                   !.digest = d] :
      text \in GivenSecrets \cup GeneratedSecrets, c \in BOOLEAN,
      t \in TimeInputs, d \in DigestInputs }

Init ==
  /\ key = 0
  /\ generated = 0
  /\ file = Absent
  /\ pc = [p \in Procs |-> "idle"]
  /\ cmd = [p \in Procs |-> NoCmd]
  /\ accounts = [p \in Procs |-> EmptyMap]
  /\ last = NoCall
  /\ totp = NoTotp

\* The process ends: its memory is gone.
Exit(p) ==
  /\ pc' = [pc EXCEPT ![p] = "idle"]
  /\ cmd' = [cmd EXCEPT ![p] = NoCmd]
  /\ accounts' = [accounts EXCEPT ![p] = EmptyMap]

\* ------------------------------------------------------------------ actions
\* run, Commands::Init: Crypto::new and Crypto::init.
RunInit(p) ==
  /\ pc[p] = "idle"
  /\ generated < MaxKeys \/ KeyExists(key)
  /\ LET r == CryptoInit(key, generated + 1)
     IN /\ key' = r.key
        /\ generated' = IF r.ok THEN generated + 1 ELSE generated
        /\ last' = [Call(p, "init") EXCEPT !.ret = IF r.ok THEN "ok" ELSE "err",
                                           !.err = r.err]
  /\ UNCHANGED <<file, pc, cmd, accounts, totp>>

\* run, any other command: TOTPAuthenticator::new("accounts.json").
Construct(p) ==
  /\ pc[p] = "idle"
  /\ \E c \in Commands, fault \in LoadFaults :
       LET a == New(file, key, fault)
       IN /\ pc' = [pc EXCEPT ![p] = IF a.ok THEN "ready" ELSE "idle"]
          /\ cmd' = [cmd EXCEPT ![p] = IF a.ok THEN c ELSE NoCmd]
          /\ accounts' = [accounts EXCEPT ![p] = a.accounts]
          /\ last' = [Call(p, "new") EXCEPT !.name = c.name, !.secret = c.secret,
                                            !.fault = fault,
                                            !.ret = IF a.ok THEN "ok" ELSE "err",
                                            !.err = a.err, !.mem1 = a.accounts,
                                            !.opened = a.opened,
                                            !.decrypted = a.decrypted]
  /\ UNCHANGED <<key, generated, file, totp>>

\* run, Commands::Add: add_account.
AddAccount(p) ==
  /\ pc[p] = "ready" /\ cmd[p].op = "add"
  /\ \E gen \in GeneratedSecrets, clockOk \in BOOLEAN, fault \in SaveFaults,
        qrOk \in BOOLEAN, eph \in EphInputs,
        ord \in Orders(DOMAIN accounts[p] \cup {cmd[p].name}) :
       LET r == AddAccountOp(accounts[p], cmd[p].name, cmd[p].secret, gen, clockOk,
                             ord, file, key, eph, fault, qrOk)
       IN /\ file' = r.file
          /\ last' = [Call(p, "add") EXCEPT !.fault = fault, !.ret = r.ret,
                                            !.err = r.err, !.val = r.val,
                                            !.mem1 = r.accounts, !.saved = r.saved]
  /\ Exit(p)
  /\ UNCHANGED <<key, generated, totp>>

\* run, Commands::Remove: remove_account.
RemoveAccount(p) ==
  /\ pc[p] = "ready" /\ cmd[p].op = "remove"
  /\ \E fault \in SaveFaults, eph \in EphInputs,
        ord \in Orders(DOMAIN accounts[p] \ {cmd[p].name}) :
       LET r == RemoveAccountOp(accounts[p], cmd[p].name, ord, file, key, eph, fault)
       IN /\ file' = r.file
          /\ last' = [Call(p, "remove") EXCEPT !.fault = fault, !.ret = r.ret,
                                               !.err = r.err, !.val = r.val,
                                               !.mem1 = r.accounts,
                                               !.saved = r.saved]
  /\ Exit(p)
  /\ UNCHANGED <<key, generated, totp>>

\* run, Commands::Code: get_code.
GetCode(p) ==
  /\ pc[p] = "ready" /\ cmd[p].op = "code"
  /\ \E clockOk \in BOOLEAN :
       last' = [Call(p, "code") EXCEPT
                  !.val = GetCodeOp(accounts[p], cmd[p].name, clockOk)]
  /\ Exit(p)
  /\ UNCHANGED <<key, generated, file, totp>>

\* run, Commands::List: list_accounts.
ListAccounts(p) ==
  /\ pc[p] = "ready" /\ cmd[p].op = "list"
  /\ last' = [Call(p, "list") EXCEPT !.listed = ListAccountsOp(accounts[p])]
  /\ Exit(p)
  /\ UNCHANGED <<key, generated, file, totp>>

\* run, Commands::Show: one round of the loop of show_codes.
ShowCodes(p) ==
  /\ pc[p] = "ready" /\ cmd[p].op = "show"
  /\ \E clockOk \in BOOLEAN :
       last' = [Call(p, "show") EXCEPT
                  !.listed = { n \in DOMAIN accounts[p] :
                                 GetCodeOp(accounts[p], n, clockOk) = "some" }]
  /\ UNCHANGED <<key, generated, file, pc, cmd, accounts, totp>>

\* Ctrl+C ends show_codes.
Interrupt(p) ==
  /\ pc[p] = "ready" /\ cmd[p].op = "show"
  /\ last' = Call(p, "interrupt")
  /\ Exit(p)
  /\ UNCHANGED <<key, generated, file, totp>>

\* run, Commands::Reset.
Reset(p) ==
  /\ pc[p] = "ready" /\ cmd[p].op = "reset"
  /\ \E confirm \in BOOLEAN, fault \in LoadFaults, delOk \in BOOLEAN :
       LET r == RunReset(file, key, confirm, fault, delOk)
       IN /\ file' = r.file
          /\ key' = r.key
          /\ last' = [Call(p, "reset") EXCEPT !.fault = fault, !.ret = r.ret,
                                              !.err = r.err, !.val = r.val]
  /\ Exit(p)
  /\ UNCHANGED <<generated, totp>>

\* TOTP::new(totp.secret) and TOTP::now at the clock reading totp.time.
TotpNow ==
  /\ totp.fn = "input"
  /\ LET probe == TotpProbe(totp.secret, totp.clockOk)
         g == Generate(totp.time, totp.digest)
     IN totp' = IF ~probe.ok
                THEN [totp EXCEPT !.fn = "now", !.ret = "err", !.err = probe.err]
                ELSE [totp EXCEPT !.fn = "now", !.counter = g.counter, !.msg = g.msg,
                                  !.offset = g.offset, !.value = g.value,
                                  !.code = g.code]
  /\ UNCHANGED <<key, generated, file, pc, cmd, accounts, last>>

Step(p) ==
  \/ RunInit(p)
  \/ Construct(p)
  \/ AddAccount(p)
  \/ RemoveAccount(p)
  \/ GetCode(p)
  \/ ListAccounts(p)
  \/ ShowCodes(p)
  \/ Interrupt(p)
  \/ Reset(p)

\* One process at a time: the design's assumption (spec section 5).
Next == Step(1)

Spec == Init /\ [][Next]_vars

\* The code generator alone.
NextTotp == TotpNow

InitTotp ==
  /\ key = 0
  /\ generated = 0
  /\ file = Absent
  /\ pc = [p \in Procs |-> "idle"]
  /\ cmd = [p \in Procs |-> NoCmd]
  /\ accounts = [p \in Procs |-> EmptyMap]
  /\ last = NoCall
  /\ totp \in TotpInputs

SpecTotp == InitTotp /\ [][NextTotp]_vars

\* ------------------------------------------------------------------- races
\* Several invocations at once, where spec section 5 assumes one: every
\* process has built its authenticator from the same backing file, under the
\* identity of the first init, and has still to run its add (of a secret it
\* generates) or its remove.
RaceNames == { n \in NameInputs : Trim(n) # <<>> }
RaceCommands ==
  { c \in Commands :
      /\ c.op \in {"add", "remove"}
      /\ c.name \in RaceNames
      /\ c.secret = NoneSecret }

\* The backing file the processes found: none yet, or a saved vault.
RaceFiles ==
  { Absent } \cup
  { Age(1, e, ToJson(m, o)) :
      e \in {0},
      m \in { [n \in {<<"a">>} |-> "JBSWY3DPEHPK3PXP"] },
      o \in { << <<"a">> >> } }

InitRace ==
  /\ key = 1
  /\ generated = 1
  /\ file \in RaceFiles
  /\ pc = [p \in Procs |-> "ready"]
  /\ cmd \in [Procs -> RaceCommands]
  /\ accounts = [p \in Procs |-> New(file, key, "none").accounts]
  /\ last = [NoCall EXCEPT !.fn = "new", !.proc = MaxProcs,
                           !.name = cmd[MaxProcs].name,
                           !.secret = cmd[MaxProcs].secret,
                           !.key0 = key, !.file0 = file,
                           !.mem1 = New(file, key, "none").accounts,
                           !.opened = New(file, key, "none").opened,
                           !.decrypted = New(file, key, "none").decrypted]
  /\ totp = NoTotp

NextRace == \E p \in Procs : AddAccount(p) \/ RemoveAccount(p)

SpecRace == InitRace /\ [][NextRace]_vars

\* =================================================================== claims
Mutating == {"add", "remove"}
VaultCalls == {"add", "remove", "code", "list", "show", "interrupt", "reset"}

\* What a fresh TOTPAuthenticator::new would load now, nothing failing.
FreshLoad == New(file, key, "none")

\* ---------------------------------------------------------------------- C1
\* C1: every mutating vault operation reports a failed save: when
\* save_accounts failed during add_account or remove_account, the operation
\* returned an error and not a success value.
C1_SaveFailureReported ==
  (last.fn \in Mutating /\ last.saved = "err") => last.ret = "err"

\* ---------------------------------------------------------------------- C2
\* C2: Crypto::init with an identity present fails with KeyExists and leaves
\* the keyring entry as it was; a successful init starts from an absent
\* identity, and a present identity becomes absent only by a successful
\* reset, so two successful inits are separated by a successful destroy.
C2_InitOnce ==
  [][ /\ (RunInit(1) /\ key # 0) =>
           (last'.ret = "err" /\ last'.err = "KeyExists" /\ key' = key)
      /\ (RunInit(1) /\ last'.ret = "ok") => (key = 0 /\ key' # 0)
      /\ (key # 0 /\ key' # key) =>
           (key' = 0 /\ last'.fn = "reset" /\ last'.ret = "ok") ]_vars

\* Two identities were generated, and an init has just been refused because
\* the second one is present.
C2_Witness ==
  /\ generated = 2
  /\ last.fn = "init" /\ last.ret = "err" /\ last.err = "KeyExists"
  /\ last.key0 # 0 /\ key = last.key0

\* ---------------------------------------------------------------------- C3
\* C3: only init creates key material: after any other call the keyring
\* entry is the one the call started with, or absent; and every identity in
\* the keyring is one Identity::generate produced for an init.
C3_OnlyInitCreatesKey ==
  /\ last.fn # "init" => key \in {last.key0, 0}
  /\ key \in 0..generated

\* A reset ran with an identity present and left the keyring empty.
C3_Witness ==
  /\ last.fn = "reset" /\ last.val = "reset"
  /\ last.key0 # 0 /\ key = 0

\* ---------------------------------------------------------------------- C4
\* C4: with the identity absent TOTPAuthenticator::new fails with KeyNotFound
\* before the backing file is opened, decrypted or changed, and the process
\* ends there; so every vault operation that ran started with an identity.
C4_IdentityBeforeVault ==
  /\ (last.fn = "new" /\ last.key0 = 0) =>
       /\ last.ret = "err" /\ last.err = "KeyNotFound"
       /\ ~last.opened /\ ~last.decrypted
       /\ file = last.file0
       /\ pc[last.proc] = "idle"
  /\ last.fn \in VaultCalls => last.key0 # 0
  /\ \A p \in Procs : pc[p] = "ready" => key # 0

\* new was refused for want of an identity while a vault file was on disk.
C4_Witness ==
  /\ last.fn = "new" /\ last.key0 = 0 /\ last.err = "KeyNotFound"
  /\ last.file0.kind = "age" /\ last.file0.body # <<>>

\* ---------------------------------------------------------------------- C5
\* The byte strings a file may hold: empty, cut short, or a whole age stream.
SampleTexts == { <<>>, << << <<"a">>, "JBSWY3DPEHPK3PXP" >> >> }
Blobs ==
  {Empty, CutHeader}
  \cup { CutPayload(k) : k \in 1..MaxKeys }
  \cup { Age(k, e, t) : k \in 1..MaxKeys, e \in EphInputs, t \in SampleTexts }

ProducedUnder(c, k) == k # 0 /\ c.kind = "age" /\ c.rcpt = k

\* C5: a vault is decrypted only by the identity that encrypted it: loading
\* a file encrypted for another identity than the one in the keyring fails
\* (with a Decryption error when the file could be read) and yields no
\* mapping, and decrypt fails on every byte string that encrypt did not
\* produce under the current identity.
C5_OnlyOwnIdentityDecrypts ==
  /\ (last.fn = "new" /\ last.key0 # 0 /\ last.file0.kind = "age"
        /\ last.file0.rcpt # last.key0) =>
       /\ last.ret = "err" /\ last.mem1 = EmptyMap /\ pc[last.proc] = "idle"
       /\ last.fault = "none" => (last.err = "Decryption" /\ last.decrypted)
  /\ \A c \in Blobs \cup {file} :
       c.kind # "absent" /\ ~ProducedUnder(c, key) => ~Decrypt(c, key).ok

\* A file holding accounts saved under the first identity was loaded with the
\* second identity in the keyring.
C5_Witness ==
  /\ last.fn = "new" /\ last.fault = "none" /\ last.err = "Decryption"
  /\ last.file0.kind = "age" /\ last.file0.body # <<>>
  /\ last.file0.rcpt = 1 /\ last.key0 = 2

\* ---------------------------------------------------------------------- C6
\* C6: add_account that fails validation changes nothing: an empty trimmed
\* name fails with InvalidSecret("Account name cannot be empty"), a secret
\* text that does not Base32-decode fails with Base32DecodeError, and in both
\* cases the mapping and the backing file are as before and save was not
\* called.
C6_FailedValidationChangesNothing ==
  LET emptyName == Trim(last.name) = <<>>
      badSecret == last.secret # NoneSecret /\ ~Base32Decode(last.secret).ok
      untouched == /\ last.ret = "err"
                   /\ last.mem1 = last.mem0
                   /\ file = last.file0
                   /\ last.saved = "none"
  IN last.fn = "add" =>
       /\ emptyName =>
            untouched /\ last.err = "InvalidSecret(Account name cannot be empty)"
       /\ (~emptyName /\ badSecret) => untouched /\ last.err = "Base32DecodeError"

\* add_account refused a text that is not Base32 for a name the vault holds.
C6_Witness ==
  /\ last.fn = "add" /\ last.err = "Base32DecodeError"
  /\ last.name \in DOMAIN last.mem0
  /\ last.file0.kind = "age"

\* ---------------------------------------------------------------------- C7
\* C7: remove_account never fails and returns true exactly when the name was
\* in the mapping; on a name that is not, it returns false, does not call
\* save, and leaves the mapping and the backing file as they were.
C7_RemoveMissingIsNoop ==
  last.fn = "remove" =>
    /\ last.ret = "ok"
    /\ last.val = "true" <=> last.name \in DOMAIN last.mem0
    /\ last.val \in {"true", "false"}
    /\ last.name \notin DOMAIN last.mem0 =>
         /\ last.saved = "none"
         /\ last.mem1 = last.mem0
         /\ file = last.file0

\* remove_account was asked for a name that a non-empty vault does not hold.
C7_Witness ==
  /\ last.fn = "remove" /\ last.val = "false"
  /\ last.mem0 # EmptyMap /\ last.name \notin DOMAIN last.mem0
  /\ file.kind = "age"

\* ---------------------------------------------------------------------- C8
\* C8: with the identity present and no I/O error, load_accounts on an absent
\* file and on a zero-length file returns the empty mapping, not an error,
\* without calling decrypt and without creating or changing the file.
C8_EmptyFileIsEmptyVault ==
  (last.fn = "new" /\ last.key0 # 0 /\ last.fault = "none"
     /\ last.file0.kind \in {"absent", "empty"}) =>
    /\ last.ret = "ok" /\ last.mem1 = EmptyMap
    /\ ~last.decrypted
    /\ file = last.file0
    /\ accounts[last.proc] = EmptyMap /\ pc[last.proc] = "ready"

\* A zero-length file, left by a failed write, was loaded.
C8_Witness ==
  /\ last.fn = "new" /\ last.key0 # 0 /\ last.fault = "none"
  /\ last.file0.kind = "empty" /\ last.ret = "ok"

\* ---------------------------------------------------------------------- C9
DigitValue(c) ==
  CASE c = "0" -> 0 [] c = "1" -> 1 [] c = "2" -> 2 [] c = "3" -> 3 [] c = "4" -> 4
    [] c = "5" -> 5 [] c = "6" -> 6 [] c = "7" -> 7 [] c = "8" -> 8 [] c = "9" -> 9

RECURSIVE DecimalValue(_)
DecimalValue(s) ==
  IF s = <<>> THEN 0
  ELSE 10 * DecimalValue(SubSeq(s, 1, Len(s) - 1)) + DigitValue(s[Len(s)])

\* C9: the code of a timestamp t is computed from counter = floor(t / 30),
\* sent to the MAC as 8 big-endian bytes; offset is the low nibble of the
\* digest's last byte, so offset + 3 indexes the 20-byte digest; value is the
\* four bytes at offset with the top bit of the first cleared, below 2^31;
\* and the code is value mod 10^6 as exactly six decimal characters.
C9_DynamicTruncation ==
  (totp.fn = "now" /\ totp.ret = "ok") =>
    LET d == totp.digest
        off == totp.offset
        v == totp.value
    IN /\ totp.counter * 30 <= totp.time /\ totp.time < totp.counter * 30 + 30
       /\ Len(totp.msg) = 8
       /\ \A i \in 1..4 : totp.msg[i] = 0
       /\ ((totp.msg[5] * 256 + totp.msg[6]) * 256 + totp.msg[7]) * 256 + totp.msg[8]
            = totp.counter
       /\ off = d[20] % 16
       /\ off + 3 <= 19
       /\ v = << d[off + 1] % 128, d[off + 2], d[off + 3], d[off + 4] >>
       /\ v[1] < 128
       /\ Len(totp.code) = 6
       /\ \A i \in 1..6 : totp.code[i] \in {"0", "1", "2", "3", "4", "5", "6", "7", "8", "9"}
       /\ DecimalValue(totp.code)
            = (((v[1] * 256 + v[2]) * 256 + v[3]) * 256 + v[4]) % 1000000

\* A code was computed from the last window of the digest, whose first byte
\* has its top bit set, and was padded on the left.
C9_Witness ==
  /\ totp.fn = "now" /\ totp.ret = "ok" /\ totp.time >= 30
  /\ totp.offset = 15 /\ totp.digest[16] >= 128
  /\ totp.code[1] = "0"

\* --------------------------------------------------------------------- C10
\* C10: after add_account or remove_account returned success, a fresh load
\* of the backing file returns the in-memory mapping the call left.
C10_LoadEqualsMemory ==
  (last.fn \in Mutating /\ last.ret = "ok" /\ key = last.key0) =>
    (FreshLoad.ok /\ FreshLoad.accounts = last.mem1)

\* --------------------------------------------------------------------- C11
\* What the file f holds for a name, read with the identity k: the secret
\* text, "absent" when the vault has no such account, "unreadable" when the
\* file does not load.
FileEntry(f, k, name) ==
  LET l == New(f, k, "none")
  IN IF ~l.ok THEN "unreadable"
     ELSE IF name \in DOMAIN l.accounts THEN l.accounts[name]
     ELSE "absent"

\* C11: whenever add_account returned an error, the backing file's entry for
\* the name is the one it held before the call.
C11_FailedAddPersistsNothing ==
  (last.fn = "add" /\ last.ret = "err") =>
    FileEntry(file, key, last.name) = FileEntry(last.file0, last.key0, last.name)

====
